---------------------------- MODULE Spec2Model ----------------------------
(***************************************************************************)
(* A model of the command-line engine of zmod-sdk,                         *)
(* src/src/qjs-tools/src/cli/cli-parser.ts: the presence check of the      *)
(* --config flag, the configuration validator, the stripping of the config *)
(* flag, the argument parser with its scan loop, the help renderers and    *)
(* the driver that prints one payload and sets the exit status.            *)
(***************************************************************************)
EXTENDS Integers, Sequences, FiniteSets, TLC

(***************************************************************************)
(* JavaScript strings.  A string is the record [d, b]: d leading '-'       *)
(* characters followed by the text b, which does not start with '-'.       *)
(* startsWith("-"), startsWith("--"), slice(1), slice(2) and === are exact *)
(* on this form.  A string that is the text of a configuration carries the *)
(* value the text denotes in a third field, json.                          *)
(***************************************************************************)
S(n, w) == [d |-> n, b |-> w]

W(w) == S(0, w)

StartsWith(s, n) == s.d >= n

Slice(s, n) == [s EXCEPT !.d = s.d - n]

StrLen(s) == s.d + Len(s.b)

EmptyStr == W("")

(***************************************************************************)
(* JavaScript values: what JSON5.parse returns and what the parser stores. *)
(***************************************************************************)
JStr(s) == [t |-> "string", s |-> s]

JNum(n) == [t |-> "number", n |-> n]

JNaN == [t |-> "number", nan |-> TRUE]

JBool(v) == [t |-> "boolean", v |-> v]

JNull == [t |-> "null"]

JUndefined == [t |-> "undefined"]

JArr(items) == [t |-> "array", items |-> items]

\* An object: its own properties as <<key, value>> pairs in insertion order.
JObj(fields) == [t |-> "object", fields |-> fields]

\* typeof v
TypeOf(v) ==
  IF v.t \in {"null", "array"} THEN "object" ELSE v.t

\* A property access or a conversion to object on v throws a TypeError.
IsNullish(v) == v.t \in {"null", "undefined"}

\* Object.keys(v), v not nullish.
ObjectKeys(v) ==
  CASE v.t = "object" -> [k \in 1..Len(v.fields) |-> v.fields[k][1]]
    [] v.t = "array" -> [k \in 1..Len(v.items) |-> W(ToString(k - 1))]
    [] v.t = "string" -> [k \in 1..StrLen(v.s) |-> W(ToString(k - 1))]
    [] OTHER -> << >>

Includes(seq, x) == \E k \in 1..Len(seq) : seq[k] = x

\* Object.prototype.hasOwnProperty.call(v, key), v not nullish.
HasOwn(v, key) ==
  \/ Includes(ObjectKeys(v), key)
  \/ v.t \in {"array", "string"} /\ key = W("length")

\* v[key], v not nullish.
Get(v, key) ==
  CASE v.t = "object" /\ Includes(ObjectKeys(v), key) ->
         (LET k == CHOOSE k \in 1..Len(v.fields) : v.fields[k][1] = key
          IN v.fields[k][2])
    [] v.t = "array" /\ Includes(ObjectKeys(v), key) ->
         (LET k == CHOOSE k \in 1..Len(v.items) : W(ToString(k - 1)) = key
          IN v.items[k])
    [] OTHER -> JUndefined

\* Array.isArray(v)
IsArray(v) == v.t = "array"


(***************************************************************************)
(* Diagnostics.  A message is its template of the source and the strings   *)
(* substituted into it, in order.                                          *)
(***************************************************************************)
Msg(id, args) == [id |-> id, args |-> args]

\* What a function that may throw an ExitError or a TypeError returns.
Pass == [kind |-> "pass"]

Ok(v) == [kind |-> "ok", value |-> v]

\* new ExitError(message): the payload is printed and the process exits with 1.
Exit(m) == [kind |-> "exit", message |-> m]

\* An uncaught TypeError (a property read or Object.keys on null).
Crash == [kind |-> "crash"]

K(w) == W(w)

AllowedTypes == {"string", "number", "boolean"}

(***************************************************************************)
(* cliConfParser, lines 93-231: the validation of the parsed configuration *)
(***************************************************************************)
\* lines 93-125: name, version, description, commands
CheckTopLevel(obj) ==
  IF IsNullish(obj) THEN Crash
  ELSE IF ~HasOwn(obj, K("name")) THEN
    Exit(Msg("Config must have a name property", << >>))
  ELSE IF TypeOf(Get(obj, K("name"))) # "string" THEN
    Exit(Msg("The name property must be a string", << >>))
  ELSE IF ~HasOwn(obj, K("version")) THEN
    Exit(Msg("Config must have a version property", << >>))
  ELSE IF TypeOf(Get(obj, K("version"))) # "string" THEN
    Exit(Msg("The version property must be a string", << >>))
  ELSE IF ~HasOwn(obj, K("description")) THEN
    Exit(Msg("Config must have a description property", << >>))
  ELSE IF TypeOf(Get(obj, K("description"))) # "string" THEN
    Exit(Msg("The description property must be a string", << >>))
  ELSE IF ~HasOwn(obj, K("commands")) THEN
    Exit(Msg("Config must have a commands property", << >>))
  ELSE IF TypeOf(Get(obj, K("commands"))) # "object" THEN
    Exit(Msg("The commands property must be an object", << >>))
  ELSE Pass

\* CheckFlagConf that looks at the alias before the type.
CheckFlagConfAliasFirst(commandName, flagName, flagConf) ==
  IF IsNullish(flagConf) THEN Crash
  ELSE IF ~HasOwn(flagConf, K("alias")) THEN
    Exit(Msg("The command flag must have an alias property in commands.${commandName}.flags.${flagName}",
             <<commandName, flagName>>))
  ELSE IF TypeOf(Get(flagConf, K("alias"))) # "string" THEN
    Exit(Msg("The command flag alias property must be a string in commands.${commandName}.flags.${flagName}",
             <<commandName, flagName>>))
  ELSE IF ~HasOwn(flagConf, K("type")) THEN
    Exit(Msg("The command flag must have a type property in commands.${commandName}",
             <<commandName>>))
  ELSE IF ~(\E ty \in AllowedTypes : Get(flagConf, K("type")) = JStr(W(ty))) THEN
    Exit(Msg("The command flag type property must be a string, number or boolean in commands.${commandName}.flags.${flagName}",
             <<commandName, flagName>>))
  ELSE IF ~HasOwn(flagConf, K("default")) THEN
    Exit(Msg("The command flag must have a default property in commands.${commandName}.flags.${flagName}",
             <<commandName, flagName>>))
  ELSE IF TypeOf(Get(flagConf, K("default"))) \notin AllowedTypes THEN
    Exit(Msg("The command flag default property must be a string, number or boolean in commands.${commandName}.flags.${flagName}",
             <<commandName, flagName>>))
  ELSE IF ~HasOwn(flagConf, K("description")) THEN
    Exit(Msg("The command flag must have a description property in commands.${commandName}.flags.${flagName}",
             <<commandName, flagName>>))
  ELSE IF TypeOf(Get(flagConf, K("description"))) # "string" THEN
    Exit(Msg("The command flag description property must be a string in commands.${commandName}.flags.${flagName}",
             <<commandName, flagName>>))
  ELSE Pass

\* lines 180-225: one flag of a command
CheckFlagConf(commandName, flagName, flagConf) ==
  IF IsNullish(flagConf) THEN Crash
  ELSE IF ~HasOwn(flagConf, K("type")) THEN
    Exit(Msg("The command flag must have a type property in commands.${commandName}",
             <<commandName>>))
  ELSE IF ~(\E ty \in AllowedTypes : Get(flagConf, K("type")) = JStr(W(ty))) THEN
    Exit(Msg("The command flag type property must be a string, number or boolean in commands.${commandName}.flags.${flagName}",
             <<commandName, flagName>>))
  ELSE IF ~HasOwn(flagConf, K("default")) THEN
    Exit(Msg("The command flag must have a default property in commands.${commandName}.flags.${flagName}",
             <<commandName, flagName>>))
  ELSE IF TypeOf(Get(flagConf, K("default"))) \notin AllowedTypes THEN
    Exit(Msg("The command flag default property must be a string, number or boolean in commands.${commandName}.flags.${flagName}",
             <<commandName, flagName>>))
  ELSE IF ~HasOwn(flagConf, K("description")) THEN
    Exit(Msg("The command flag must have a description property in commands.${commandName}.flags.${flagName}",
             <<commandName, flagName>>))
  ELSE IF TypeOf(Get(flagConf, K("description"))) # "string" THEN
    Exit(Msg("The command flag description property must be a string in commands.${commandName}.flags.${flagName}",
             <<commandName, flagName>>))
  ELSE IF ~HasOwn(flagConf, K("alias")) THEN
    Exit(Msg("The command flag must have an alias property in commands.${commandName}.flags.${flagName}",
             <<commandName, flagName>>))
  ELSE IF TypeOf(Get(flagConf, K("alias"))) # "string" THEN
    Exit(Msg("The command flag alias property must be a string in commands.${commandName}.flags.${flagName}",
             <<commandName, flagName>>))
  ELSE Pass

\* lines 178-227: Object.keys(commandConf.flags).forEach, from the k-th key on
RECURSIVE CheckFlags(_, _, _)
CheckFlags(commandName, flags, k) ==
  IF k > Len(ObjectKeys(flags)) THEN Pass
  ELSE LET flagName == ObjectKeys(flags)[k]
           r == CheckFlagConf(commandName, flagName, Get(flags, flagName))
       IN IF r # Pass THEN r ELSE CheckFlags(commandName, flags, k + 1)

\* lines 154-163: one element of commandConf.args
CheckArgConf(commandName, arg) ==
  IF IsNullish(arg) THEN Crash
  ELSE IF ~HasOwn(arg, K("name")) THEN
    Exit(Msg("The command arg must have a name property in commands.${commandName}",
             <<commandName>>))
  ELSE IF TypeOf(Get(arg, K("name"))) # "string" THEN
    Exit(Msg("The command arg name property must be a string in commands.${commandName}",
             <<commandName>>))
  ELSE Pass

\* lines 152-165: commandConf.args.forEach, from the k-th element on
RECURSIVE CheckArgs(_, _, _)
CheckArgs(commandName, args, k) ==
  IF k > Len(args.items) THEN Pass
  ELSE LET r == CheckArgConf(commandName, args.items[k])
       IN IF r # Pass THEN r ELSE CheckArgs(commandName, args, k + 1)

\* lines 128-227: one command of the configuration
CheckCommandConf(commandName, commandConf) ==
  LET args == CheckArgs(commandName, Get(commandConf, K("args")), 1)
  IN
  IF IsNullish(commandConf) THEN Crash
  ELSE IF ~Includes(ObjectKeys(commandConf), K("description")) THEN
    Exit(Msg("the commands.${commandName}.description property in config was required",
             <<commandName>>))
  ELSE IF TypeOf(Get(commandConf, K("description"))) # "string" THEN
    Exit(Msg("the commands.${commandName}.description property must be a string",
             <<commandName>>))
  ELSE IF ~HasOwn(commandConf, K("args")) THEN
    Exit(Msg("The command must have an args property in commands.${commandName}",
             <<commandName>>))
  ELSE IF ~IsArray(Get(commandConf, K("args"))) THEN
    Exit(Msg("The command args property must be an array in commands.${commandName}",
             <<commandName>>))
  ELSE IF args # Pass THEN args
  ELSE IF ~HasOwn(commandConf, K("flags")) THEN
    Exit(Msg("The command must have an flags property in commands.${commandName}",
             <<commandName>>))
  ELSE IF TypeOf(Get(commandConf, K("flags"))) # "object" THEN
    Exit(Msg("The command flags property must be an object in commands.${commandName}",
             <<commandName>>))
  ELSE IF IsNullish(Get(commandConf, K("flags"))) THEN Crash
  ELSE CheckFlags(commandName, Get(commandConf, K("flags")), 1)

\* lines 127-228: Object.keys(cliConfObj.commands).forEach, from the k-th key on
RECURSIVE CheckCommands(_, _)
CheckCommands(commands, k) ==
  IF IsNullish(commands) THEN Crash
  ELSE IF k > Len(ObjectKeys(commands)) THEN Pass
  ELSE LET commandName == ObjectKeys(commands)[k]
           r == CheckCommandConf(commandName, Get(commands, commandName))
       IN IF r # Pass THEN r ELSE CheckCommands(commands, k + 1)

\* lines 93-230: the checks in order; the configuration when all pass
ValidateConf(obj) ==
  LET top == CheckTopLevel(obj)
      commands == CheckCommands(Get(obj, K("commands")), 1)
  IN IF top # Pass THEN top
     ELSE IF commands # Pass THEN commands
     ELSE Ok(obj)

(***************************************************************************)
(* The reserved tokens.                                                    *)
(***************************************************************************)
IsConfigFlag(arg) == arg = S(2, "config") \/ arg = S(1, "c")

IsVersionFlag(arg) == arg = S(2, "version") \/ arg = S(1, "v")

IsHelpFlag(arg) == arg = S(2, "help") \/ arg = S(1, "h")

(***************************************************************************)
(* checkConfFlag, lines 237-255                                            *)
(***************************************************************************)
\* the loop from index i on, hasConfFlag being what it has found so far
RECURSIVE CheckConfFlagFrom(_, _, _)
CheckConfFlagFrom(cliArgs, i, hasConfFlag) ==
  IF i > Len(cliArgs) THEN
    IF ~hasConfFlag THEN Exit(Msg("The --config|-c flag must be set", << >>))
    ELSE Pass
  ELSE IF IsConfigFlag(cliArgs[i]) THEN
    IF Len(cliArgs) = i THEN
      Exit(Msg("The --config|-c flag must be set with a value", << >>))
    ELSE CheckConfFlagFrom(cliArgs, i + 1, TRUE)
  ELSE CheckConfFlagFrom(cliArgs, i + 1, hasConfFlag)

\* checkConfFlag that stops at the first --config or -c it finds.
RECURSIVE checkConfFlagFirstOnly(_)
checkConfFlagFirstOnly(cliArgs) ==
  IF Len(cliArgs) = 0 THEN Exit(Msg("The --config|-c flag must be set", << >>))
  ELSE IF IsConfigFlag(Head(cliArgs)) THEN
    IF Len(cliArgs) = 1 THEN
      Exit(Msg("The --config|-c flag must be set with a value", << >>))
    ELSE Pass
  ELSE checkConfFlagFirstOnly(Tail(cliArgs))

\* checkConfFlag that lets every list through.
checkConfFlagSkipped(cliArgs) == Pass

checkConfFlag(cliArgs) == CheckConfFlagFrom(cliArgs, 1, FALSE)

(***************************************************************************)
(* cliConfParser, lines 66-91: the locator and its text                    *)
(***************************************************************************)
\* The locator scan that keeps the first locator it finds.
RECURSIVE ExtractLocatorFirstWins(_, _, _)
ExtractLocatorFirstWins(cliArgs, i, cliConfig) ==
  IF i > Len(cliArgs) THEN Ok(cliConfig)
  ELSE IF IsConfigFlag(cliArgs[i]) THEN
    IF i + 1 > Len(cliArgs) THEN Crash
    ELSE IF ~StartsWith(cliArgs[i + 1], 1) /\ cliConfig = EmptyStr THEN
      ExtractLocatorFirstWins(cliArgs, i + 1, cliArgs[i + 1])
    ELSE ExtractLocatorFirstWins(cliArgs, i + 1, cliConfig)
  ELSE ExtractLocatorFirstWins(cliArgs, i + 1, cliConfig)

\* lines 69-78: cliArgs.forEach from index i on; hasNextArg is always true,
\* so reading startsWith of a missing next argument throws a TypeError.
RECURSIVE ExtractLocatorFrom(_, _, _)
ExtractLocatorFrom(cliArgs, i, cliConfig) ==
  IF i > Len(cliArgs) THEN Ok(cliConfig)
  ELSE IF IsConfigFlag(cliArgs[i]) THEN
    IF i + 1 > Len(cliArgs) THEN Crash
    ELSE IF ~StartsWith(cliArgs[i + 1], 1) THEN
      ExtractLocatorFrom(cliArgs, i + 1, cliArgs[i + 1])
    ELSE ExtractLocatorFrom(cliArgs, i + 1, cliConfig)
  ELSE ExtractLocatorFrom(cliArgs, i + 1, cliConfig)

\* The numerals among the texts of the model and the numbers they denote.
Numerals == [w \in {"0", "5", "42"} |-> CASE w = "0" -> 0 [] w = "5" -> 5 [] w = "42" -> 42]

\* JSON5.parse(text): the value a configuration text denotes, the number of
\* a numeral, and a syntax error for every other text of the model.
JSON5Parse(text) ==
  IF "json" \in DOMAIN text THEN Ok(text.json)
  ELSE IF text.b \in DOMAIN Numerals THEN
    IF text.d = 0 THEN Ok(JNum(Numerals[text.b]))
    ELSE IF text.d = 1 THEN Ok(JNum(0 - Numerals[text.b]))
    ELSE [kind |-> "syntaxerror"]
  ELSE [kind |-> "syntaxerror"]

cliConfParser(cliArgs) ==
  LET loc == ExtractLocatorFrom(cliArgs, 1, EmptyStr)
      cliConfObj == JSON5Parse(loc.value)
  IN IF loc = Crash THEN Crash
     ELSE IF loc.value = EmptyStr THEN
       Exit(Msg("No config file found, please add a config with the --config | -c flag", << >>))
     ELSE IF cliConfObj.kind # "ok" THEN Exit(Msg("Invalid config", << >>))
     ELSE ValidateConf(cliConfObj.value)

(***************************************************************************)
(* removeConfFlag, lines 300-316                                           *)
(***************************************************************************)
RECURSIVE RemoveConfFlagFrom(_, _, _)
RemoveConfFlagFrom(inputCliArgs, i, isRemove) ==
  IF i > Len(inputCliArgs) THEN << >>
  ELSE IF IsConfigFlag(inputCliArgs[i]) /\ ~isRemove THEN
    RemoveConfFlagFrom(inputCliArgs, i + 2, TRUE)
  ELSE <<inputCliArgs[i]>> \o RemoveConfFlagFrom(inputCliArgs, i + 1, isRemove)

\* removeConfFlag that never sets isRemove: every occurrence is taken out.
RECURSIVE removeConfFlagEvery(_)
removeConfFlagEvery(inputCliArgs) ==
  IF Len(inputCliArgs) = 0 THEN << >>
  ELSE IF IsConfigFlag(Head(inputCliArgs)) THEN
    IF Len(inputCliArgs) = 1 THEN << >>
    ELSE removeConfFlagEvery(Tail(Tail(inputCliArgs)))
  ELSE <<Head(inputCliArgs)>> \o removeConfFlagEvery(Tail(inputCliArgs))

removeConfFlag(inputCliArgs) == RemoveConfFlagFrom(inputCliArgs, 1, FALSE)

\* isVersion without its scan for a later --version or -v.
isVersionFirstOnly(inputCliArgs) ==
  IF Len(inputCliArgs) = 0 THEN Ok(FALSE)
  ELSE Ok(\/ inputCliArgs[1] = S(2, "version")
          \/ (inputCliArgs[1] = S(1, "v") /\ Len(inputCliArgs) = 1))

(***************************************************************************)
(* isVersion, lines 498-519                                                *)
(***************************************************************************)
isVersion(inputCliArgs) ==
  IF Len(inputCliArgs) = 0 THEN Ok(FALSE)
  ELSE IF \/ inputCliArgs[1] = S(2, "version")
          \/ (inputCliArgs[1] = S(1, "v") /\ Len(inputCliArgs) = 1) THEN Ok(TRUE)
  ELSE IF \E i \in 1..Len(inputCliArgs) : IsVersionFlag(inputCliArgs[i]) THEN
    Exit(Msg("The --version|-v flag must be set alone", << >>))
  ELSE Ok(FALSE)

(***************************************************************************)
(* isArgsIncludeHelpFlag, lines 520-533                                    *)
(***************************************************************************)
RECURSIVE IsArgsIncludeHelpFlagFrom(_, _, _)
IsArgsIncludeHelpFlagFrom(inputCliArgs, i, isDetectHelpFlag) ==
  IF i > Len(inputCliArgs) THEN Ok(isDetectHelpFlag)
  ELSE IF IsHelpFlag(inputCliArgs[i]) THEN
    IF isDetectHelpFlag THEN Exit(Msg("The --help|-h flag must be set alone", << >>))
    ELSE IsArgsIncludeHelpFlagFrom(inputCliArgs, i + 1, TRUE)
  ELSE IsArgsIncludeHelpFlagFrom(inputCliArgs, i + 1, isDetectHelpFlag)

\* isArgsIncludeHelpFlag without the error at the second help flag.
isArgsIncludeHelpFlagLax(inputCliArgs) ==
  Ok(\E k \in 1..Len(inputCliArgs) : IsHelpFlag(inputCliArgs[k]))

isArgsIncludeHelpFlag(inputCliArgs) == IsArgsIncludeHelpFlagFrom(inputCliArgs, 1, FALSE)

(***************************************************************************)
(* removeHelpFlag, lines 540-556: the i++ before continue skips the token  *)
(* after the help flag as well.                                            *)
(***************************************************************************)
RECURSIVE RemoveHelpFlagFrom(_, _, _)
RemoveHelpFlagFrom(inputCliArgs, i, isRemove) ==
  IF i > Len(inputCliArgs) THEN << >>
  ELSE IF IsHelpFlag(inputCliArgs[i]) /\ ~isRemove THEN
    RemoveHelpFlagFrom(inputCliArgs, i + 2, TRUE)
  ELSE <<inputCliArgs[i]>> \o RemoveHelpFlagFrom(inputCliArgs, i + 1, isRemove)

removeHelpFlag(inputCliArgs) == RemoveHelpFlagFrom(inputCliArgs, 1, FALSE)

(***************************************************************************)
(* String concatenation, for the template strings of the source.           *)
(***************************************************************************)
RECURSIVE Dashes(_)
Dashes(n) == IF n = 0 THEN "" ELSE "-" \o Dashes(n - 1)

Cat(a, b) ==
  IF a.b = "" THEN S(a.d + b.d, b.b)
  ELSE S(a.d, a.b \o Dashes(b.d) \o b.b)

RECURSIVE CatAll(_)
CatAll(parts) ==
  IF Len(parts) = 0 THEN EmptyStr ELSE Cat(Head(parts), CatAll(Tail(parts)))

\* Number(value) of a string
NumberOf(s) ==
  IF "json" \in DOMAIN s THEN JNaN
  ELSE IF s = EmptyStr THEN JNum(0)
  ELSE IF s.b \in DOMAIN Numerals /\ s.d = 0 THEN JNum(Numerals[s.b])
  ELSE IF s.b \in DOMAIN Numerals /\ s.d = 1 THEN JNum(0 - Numerals[s.b])
  ELSE JNaN

(***************************************************************************)
(* The flag helpers of the scan loop.                                      *)
(***************************************************************************)
FlagsOf(commandConf) == Get(commandConf, K("flags"))

\* checkFlagNotEempty, lines 322-326
checkFlagNotEempty(flag) ==
  IF flag = EmptyStr THEN Exit(Msg("The flag ${flag} is not valid", <<flag>>))
  ELSE Pass

\* hasFlag, lines 257-268
hasFlag(arg, commandConf) ==
  IF StartsWith(arg, 2) THEN
    IF checkFlagNotEempty(Slice(arg, 2)) # Pass THEN checkFlagNotEempty(Slice(arg, 2))
    ELSE IF ~Includes(ObjectKeys(FlagsOf(commandConf)), Slice(arg, 2)) THEN
      Exit(Msg("The flag ${flag} is not a valid flag", <<Slice(arg, 2)>>))
    ELSE Ok(Slice(arg, 2))
  ELSE Ok(EmptyStr)

\* lines 276-280: aliasMapFlag.get(alias); a later flag with the same alias
\* replaces an earlier one.
AliasHolders(commandConf, alias) ==
  {k \in 1..Len(ObjectKeys(FlagsOf(commandConf))) :
     Get(Get(FlagsOf(commandConf), ObjectKeys(FlagsOf(commandConf))[k]), K("alias"))
       = JStr(alias)}

AliasMapGet(commandConf, alias) ==
  LET holders == AliasHolders(commandConf, alias)
      last == CHOOSE k \in holders : \A j \in holders : j <= k
  IN ObjectKeys(FlagsOf(commandConf))[last]

\* hasAliasFlag that looks no alias up.
hasAliasFlagIgnored(arg, commandConf, command) == Ok(EmptyStr)

\* hasAliasFlag, lines 270-293
hasAliasFlag(arg, commandConf, command) ==
  IF StartsWith(arg, 1) THEN
    IF checkFlagNotEempty(Slice(arg, 1)) # Pass THEN checkFlagNotEempty(Slice(arg, 1))
    ELSE IF AliasHolders(commandConf, Slice(arg, 1)) = {} THEN
      Exit(Msg("The flag ${aliasFlag} is not a valid flag in ${command}",
               <<Slice(arg, 1), command>>))
    ELSE Ok(AliasMapGet(commandConf, Slice(arg, 1)))
  ELSE Ok(EmptyStr)

\* lines 478-479: hasFlag(arg, commandConf) || hasAliasFlag(arg, commandConf, command)
FlagOfArg(arg, commandConf, command) ==
  IF hasFlag(arg, commandConf).kind # "ok" THEN hasFlag(arg, commandConf)
  ELSE IF hasFlag(arg, commandConf).value # EmptyStr THEN hasFlag(arg, commandConf)
  ELSE hasAliasFlag(arg, commandConf, command)

\* checkFlag that does not look for the value of a string or number flag.
checkFlagNoValueCheck(inputArgsIndex, inputFlag, inputCommandConf, inputCliArgs, inputCommandName) ==
  IF ~Includes(ObjectKeys(FlagsOf(inputCommandConf)), inputFlag) THEN
    Exit(Msg("The flag ${inputFlag} is not a valid flag in command: ${inputCommandName}}",
             <<inputFlag, inputCommandName>>))
  ELSE Pass

\* checkFlag, lines 328-354; inputArgsIndex counts from 1
checkFlag(inputArgsIndex, inputFlag, inputCommandConf, inputCliArgs, inputCommandName) ==
  IF ~Includes(ObjectKeys(FlagsOf(inputCommandConf)), inputFlag) THEN
    Exit(Msg("The flag ${inputFlag} is not a valid flag in command: ${inputCommandName}}",
             <<inputFlag, inputCommandName>>))
  ELSE IF /\ Get(Get(FlagsOf(inputCommandConf), inputFlag), K("type"))
               \in {JStr(W("string")), JStr(W("number"))}
          /\ Len(inputCliArgs) = inputArgsIndex THEN
    Exit(Msg("The flag --${inputFlag} must have a value in command: ${inputCommandName}",
             <<inputFlag, inputCommandName>>))
  ELSE Pass

\* parseFlag that reads the value but does not step over its token.
parseFlagValueNotSkipped(flagConf, cliArgs, i) ==
  IF Get(flagConf, K("type")) \in {JStr(W("number")), JStr(W("string"))} THEN
    IF i + 1 > Len(cliArgs) THEN
      <<IF Get(flagConf, K("type")) = JStr(W("number")) THEN JNaN ELSE JUndefined, i>>
    ELSE IF Get(flagConf, K("type")) = JStr(W("number")) THEN <<NumberOf(cliArgs[i + 1]), i>>
    ELSE <<JStr(cliArgs[i + 1]), i>>
  ELSE <<JBool(TRUE), i>>

\* parseFlag whose boolean branch also steps over the next token.
parseFlagBooleanConsumes(flagConf, cliArgs, i) ==
  IF Get(flagConf, K("type")) \in {JStr(W("number")), JStr(W("string"))} THEN
    IF i + 1 > Len(cliArgs) THEN
      <<IF Get(flagConf, K("type")) = JStr(W("number")) THEN JNaN ELSE JUndefined, i + 1>>
    ELSE IF Get(flagConf, K("type")) = JStr(W("number")) THEN <<NumberOf(cliArgs[i + 1]), i + 1>>
    ELSE <<JStr(cliArgs[i + 1]), i + 1>>
  ELSE <<JBool(TRUE), i + 1>>

\* parseFlag, lines 363-377: the value and the index of the last token used
\* (cliArgs[i + 1] past the end of the list is undefined, Number(undefined) NaN)
parseFlag(flagConf, cliArgs, i) ==
  IF Get(flagConf, K("type")) \in {JStr(W("number")), JStr(W("string"))} THEN
    IF i + 1 > Len(cliArgs) THEN
      <<IF Get(flagConf, K("type")) = JStr(W("number")) THEN JNaN ELSE JUndefined, i + 1>>
    ELSE IF Get(flagConf, K("type")) = JStr(W("number")) THEN <<NumberOf(cliArgs[i + 1]), i + 1>>
    ELSE <<JStr(cliArgs[i + 1]), i + 1>>
  ELSE <<JBool(TRUE), i>>

\* checkCommand, lines 384-388
checkCommand(command, cliConf) ==
  IF ~Includes(ObjectKeys(Get(cliConf, K("commands"))), command) THEN
    Exit(Msg("The command ${command} is not a valid command", <<command>>))
  ELSE Pass

(***************************************************************************)
(* The help texts.  A text is kept as its lines; a usage line is the two   *)
(* cells formatLine joins with two tabs.                                   *)
(***************************************************************************)
StrOf(v) == v.s

\* formatLine, lines 392-393
formatLine(cell, cell2) == [cell |-> cell, cell2 |-> cell2]

\* CommandLines that leaves the last command out.
CommandLinesDropLast(cliConf) ==
  LET commands == Get(cliConf, K("commands"))
      names == ObjectKeys(commands)
  IN [k \in 1..(Len(names) - 1) |->
        formatLine(CatAll(<<StrOf(Get(cliConf, K("name"))), W(" "), names[k]>>),
                   StrOf(Get(Get(commands, names[k]), K("description"))))]

\* lines 394-399: one usage line for each key of cliConf.commands, in order
CommandLines(cliConf) ==
  LET commands == Get(cliConf, K("commands"))
      names == ObjectKeys(commands)
  IN [k \in 1..Len(names) |->
        formatLine(CatAll(<<StrOf(Get(cliConf, K("name"))), W(" "), names[k]>>),
                   StrOf(Get(Get(commands, names[k]), K("description"))))]

\* helpDoc, lines 390-419
helpDoc(cliConf) ==
  LET name == StrOf(Get(cliConf, K("name")))
  IN [title |-> CatAll(<<name, W(" - "), StrOf(Get(cliConf, K("description")))>>),
      usage |-> CommandLines(cliConf)
                  \o <<formatLine(Cat(name, W(" help")), W("search for help on <term>")),
                       formatLine(Cat(name, W(" help <term>")), W("search for help on <term>"))>>,
      options |-> <<W("--help, -h     show help (default: false)"),
                    W("--version, -v  show version (default: false)")>>,
      footer |-> CatAll(<<name, W("@"), StrOf(Get(cliConf, K("version")))>>)]

\* argsDoc.join(" ")
RECURSIVE JoinSpace(_)
JoinSpace(parts) ==
  IF Len(parts) = 0 THEN EmptyStr
  ELSE IF Len(parts) = 1 THEN parts[1]
  ELSE CatAll(<<parts[1], W(" "), JoinSpace(Tail(parts))>>)

\* commandHelpDoc, lines 564-591
commandHelpDoc(action, cliConf) ==
  LET name == action.command.name
      commandConf == Get(Get(cliConf, K("commands")), name)
      args == Get(commandConf, K("args")).items
      argsDoc == [k \in 1..Len(args) |->
                    CatAll(<<W("<"), StrOf(Get(args[k], K("name"))), W(">")>>)]
      flagNames == ObjectKeys(FlagsOf(commandConf))
      flagDocs == [k \in 1..Len(flagNames) |->
                     CatAll(<<W("\t"), S(2, ""), flagNames[k], W("\t\t"),
                              StrOf(Get(Get(FlagsOf(commandConf), flagNames[k]),
                                        K("description")))>>)]
  IN [usage |-> CatAll(<<StrOf(Get(cliConf, K("name"))), W(" "), name, W(" "),
                         JoinSpace(argsDoc)>>),
      description |-> Cat(StrOf(Get(commandConf, K("description"))), W(".")),
      options |-> flagDocs]

(***************************************************************************)
(* The state of one run of the program.                                    *)
(***************************************************************************)
VARIABLES
  rawArgs,        \* scriptArgs.slice(1), line 593
  pc,             \* the statement the run is at
  cliConf,        \* the validated configuration, line 595
  inputCliArgs,   \* inputParser's parameter, reassigned at line 440
  isHelpe,        \* line 438
  result,         \* the InputActionType being filled, lines 455-464
  cliArgs,        \* inputCliArgs.slice(1), line 467
  i,              \* the index of the scan loop, counted from 1
  stdout,         \* the payloads printed by console.log
  exitCode,       \* the exit status; -1 while the run goes on
  uncaught        \* the run ended by an uncaught TypeError

vars == <<rawArgs, pc, cliConf, inputCliArgs, isHelpe, result, cliArgs, i,
          stdout, exitCode, uncaught>>

NoConf == [t |-> "undefined"]

NoResult == [action |-> "none"]

NoCommand == [t |-> "undefined"]

VersionOutput(conf) ==
  CatAll(<<StrOf(Get(conf, K("name"))), W("@"), StrOf(Get(conf, K("version")))>>)

\* ExitError, lines 53-60: output.message is set, the output object is
\* printed and std.exit(1) ends the process.
ThrowExitError(message) ==
  /\ stdout' = Append(stdout, [success |-> FALSE, message |-> message])
  /\ exitCode' = 1
  /\ pc' = "done"
  /\ uncaught' = FALSE

\* An uncaught TypeError: nothing is printed to the standard output and the
\* interpreter ends the process with status 1.
ThrowTypeError ==
  /\ stdout' = stdout
  /\ exitCode' = 1
  /\ pc' = "done"
  /\ uncaught' = TRUE

\* What ends a step: an ExitError, a TypeError, or neither.
Raise(outcome) ==
  IF outcome.kind = "exit" THEN ThrowExitError(outcome.message) ELSE ThrowTypeError

\* line 594
RunCheckConfFlag ==
  /\ pc = "checkConfFlag"
  /\ LET checked == checkConfFlag(rawArgs)
     IN IF checked # Pass THEN Raise(checked)
        ELSE /\ pc' = "cliConfParser"
             /\ UNCHANGED <<stdout, exitCode, uncaught>>
  /\ UNCHANGED <<rawArgs, cliConf, inputCliArgs, isHelpe, result, cliArgs, i>>

\* line 595, and the argument of line 596
RunCliConfParser ==
  /\ pc = "cliConfParser"
  /\ LET parsed == cliConfParser(rawArgs)
     IN IF parsed.kind # "ok" THEN
          /\ Raise(parsed)
          /\ UNCHANGED <<cliConf, inputCliArgs>>
        ELSE /\ cliConf' = parsed.value
             /\ inputCliArgs' = removeConfFlag(rawArgs)
             /\ pc' = "inputParser"
             /\ UNCHANGED <<stdout, exitCode, uncaught>>
  /\ UNCHANGED <<rawArgs, isHelpe, result, cliArgs, i>>

\* The assignment that leaves a flag that is already set as it is.
PutKeepFirst(flags, flag, value) ==
  [k \in DOMAIN flags \cup {flag} |-> IF k \in DOMAIN flags THEN flags[k] ELSE value]

\* result.command.flags[flag] = value, line 487
Put(flags, flag, value) ==
  [k \in DOMAIN flags \cup {flag} |-> IF k = flag THEN value ELSE flags[k]]

\* The new result with the defaults of the declared flags filled in.
NewResultWithDefaults(command, help, conf) ==
  LET flags == Get(Get(Get(conf, K("commands")), command), K("flags"))
      names == ObjectKeys(flags)
  IN [success |-> TRUE,
      action |-> IF help THEN "help" ELSE "command",
      output |-> EmptyStr,
      command |-> [name |-> command,
                   flags |-> [f \in {names[k] : k \in 1..Len(names)} |->
                                Get(Get(flags, f), K("default"))],
                   args |-> << >>]]

\* inputParser, lines 455-464: the result before the scan, no flag set
NewResult(command, help, conf) ==
  [success |-> TRUE,
   action |-> IF help THEN "help" ELSE "command",
   output |-> EmptyStr,
   command |-> [name |-> command, flags |-> << >>, args |-> << >>]]

\* inputParser, lines 430-467: up to the start of the scan loop
InputParserHead ==
  /\ pc = "inputParser"
  /\ LET version == isVersion(inputCliArgs)
         helpFlag == isArgsIncludeHelpFlag(inputCliArgs)
     IN
     IF version.kind # "ok" THEN
       /\ Raise(version)
       /\ UNCHANGED <<inputCliArgs, isHelpe, result, cliArgs, i>>
     ELSE IF version.value THEN
       /\ result' = [success |-> TRUE, action |-> "version",
                     output |-> VersionOutput(cliConf), command |-> NoCommand]
       /\ pc' = "emit"
       /\ UNCHANGED <<inputCliArgs, isHelpe, cliArgs, i, stdout, exitCode, uncaught>>
     ELSE IF helpFlag.kind # "ok" THEN
       /\ Raise(helpFlag)
       /\ UNCHANGED <<inputCliArgs, isHelpe, result, cliArgs, i>>
     ELSE
       LET help == helpFlag.value
           reduced == IF help THEN removeHelpFlag(inputCliArgs) ELSE inputCliArgs
       IN /\ inputCliArgs' = reduced
          /\ isHelpe' = help
          /\ IF Len(reduced) = 0 THEN
               /\ result' = [success |-> FALSE, action |-> "help",
                             output |-> helpDoc(cliConf), command |-> NoCommand]
               /\ pc' = "emit"
               /\ UNCHANGED <<cliArgs, i, stdout, exitCode, uncaught>>
             ELSE IF checkCommand(reduced[1], cliConf) # Pass THEN
               /\ Raise(checkCommand(reduced[1], cliConf))
               /\ UNCHANGED <<result, cliArgs, i>>
             ELSE
               /\ result' = NewResult(reduced[1], help, cliConf)
               /\ cliArgs' = Tail(reduced)
               /\ i' = 1
               /\ pc' = "scan"
               /\ UNCHANGED <<stdout, exitCode, uncaught>>
  /\ UNCHANGED <<rawArgs, cliConf>>

CommandConf == Get(Get(cliConf, K("commands")), result.command.name)

\* inputParser, lines 468-493: one turn of the scan loop
ScanArg ==
  /\ pc = "scan"
  /\ i <= Len(cliArgs)
  /\ LET arg == cliArgs[i]
         flag == FlagOfArg(arg, CommandConf, result.command.name)
     IN IF IsVersionFlag(arg) THEN
          /\ result' = [result EXCEPT !.action = "version",
                                      !.output = VersionOutput(cliConf)]
          /\ pc' = "emit"
          /\ UNCHANGED <<i, stdout, exitCode, uncaught>>
        ELSE IF flag.kind # "ok" THEN
          /\ Raise(flag)
          /\ UNCHANGED <<result, i>>
        ELSE IF flag.value # EmptyStr THEN
          IF checkFlag(i, flag.value, CommandConf, cliArgs, result.command.name) # Pass THEN
            /\ Raise(checkFlag(i, flag.value, CommandConf, cliArgs, result.command.name))
            /\ UNCHANGED <<result, i>>
          ELSE
            LET parsed == parseFlag(Get(FlagsOf(CommandConf), flag.value), cliArgs, i)
            IN /\ result' = [result EXCEPT
                               !.command.flags = Put(@, flag.value, parsed[1])]
               /\ i' = parsed[2] + 1
               /\ UNCHANGED <<pc, stdout, exitCode, uncaught>>
        ELSE
          /\ result' = [result EXCEPT !.command.args = Append(@, arg)]
          /\ i' = i + 1
          /\ UNCHANGED <<pc, stdout, exitCode, uncaught>>
  /\ UNCHANGED <<rawArgs, cliConf, inputCliArgs, isHelpe, cliArgs>>

\* inputParser, line 495: the loop is over
ReturnResult ==
  /\ pc = "scan"
  /\ i > Len(cliArgs)
  /\ pc' = "emit"
  /\ UNCHANGED <<rawArgs, cliConf, inputCliArgs, isHelpe, result, cliArgs, i,
                 stdout, exitCode, uncaught>>

\* lines 597-604: the result is printed and the exit status set
Emit ==
  /\ pc = "emit"
  /\ LET final == IF result.action = "help" /\ result.command # NoCommand
                  THEN [result EXCEPT !.output = commandHelpDoc(result, cliConf)]
                  ELSE result
     IN /\ result' = final
        /\ stdout' = Append(stdout, final)
        /\ exitCode' = IF final.success THEN 0 ELSE 1
  /\ pc' = "done"
  /\ UNCHANGED <<rawArgs, cliConf, inputCliArgs, isHelpe, cliArgs, i, uncaught>>

Next ==
  \/ RunCheckConfFlag
  \/ RunCliConfParser
  \/ InputParserHead
  \/ ScanArg
  \/ ReturnResult
  \/ Emit

(***************************************************************************)
(* The configurations and argument lists the runs are started with.        *)
(***************************************************************************)
FlagConf(type, default, description, alias) ==
  JObj(<< <<K("type"), JStr(W(type))>>, <<K("default"), default>>,
          <<K("description"), JStr(W(description))>>, <<K("alias"), JStr(W(alias))>> >>)

Command(description, args, flags) ==
  JObj(<< <<K("description"), JStr(W(description))>>, <<K("args"), JArr(args)>>,
          <<K("flags"), JObj(flags)>> >>)

Conf(name, version, description, commands) ==
  JObj(<< <<K("name"), JStr(W(name))>>, <<K("version"), JStr(W(version))>>,
          <<K("description"), JStr(W(description))>>, <<K("commands"), JObj(commands)>> >>)

ArgSlot(name) == JObj(<< <<K("name"), JStr(W(name))>> >>)

\* One command with a flag of each type.
ConfApp ==
  Conf("app", "1.0", "d",
       << <<W("init"),
            Command("x", <<ArgSlot("dir")>>,
                    << <<W("force"), FlagConf("boolean", JBool(FALSE), "f", "f")>>,
                       <<W("name"), FlagConf("string", JStr(W("")), "n", "n")>>,
                       <<W("count"), FlagConf("number", JNum(0), "c", "k")>> >>)>> >>)

\* The text of a configuration, as a command-line token.
TextOf(conf) == [d |-> 0, b |-> "{}", json |-> conf]

MaxArgs == 3

ArgTokens ==
  {S(2, "version"), S(1, "v"), S(2, "help"), S(1, "h"), W("init"), W("x"),
   S(2, "force"), S(1, "f"), S(2, "name"), S(1, "n"), S(2, "count"), W("5"),
   S(2, "bogus"), S(1, "")}

ArgLists == UNION {[1..n -> ArgTokens] : n \in 0..MaxArgs}

Start(args) ==
  /\ rawArgs = args
  /\ pc = "checkConfFlag"
  /\ cliConf = NoConf
  /\ inputCliArgs = << >>
  /\ isHelpe = FALSE
  /\ result = NoResult
  /\ cliArgs = << >>
  /\ i = 0
  /\ stdout = << >>
  /\ exitCode = -1
  /\ uncaught = FALSE

Init ==
  \E args \in ArgLists : Start(<<S(1, "c"), TextOf(ConfApp)>> \o args)

Spec == Init /\ [][Next]_vars

(***************************************************************************)
(* What the properties below speak of.                                     *)
(***************************************************************************)
\* The argument list inputParser is called with.
ParserInput == removeConfFlag(rawArgs)

Ended == pc = "done"

\* The run ended by an ExitError with this message.
EndedInError(m) ==
  /\ Ended
  /\ ~uncaught
  /\ stdout = <<[success |-> FALSE, message |-> m]>>
  /\ exitCode = 1

\* The run ended by printing a result.
EndedInResult == Ended /\ ~uncaught /\ Len(stdout) = 1 /\ "action" \in DOMAIN stdout[1]

HasVersionToken(args) == \E k \in 1..Len(args) : IsVersionFlag(args[k])

HelpCount(args) == Cardinality({k \in 1..Len(args) : IsHelpFlag(args[k])})

DeclaredCommands(conf) ==
  {ObjectKeys(Get(conf, K("commands")))[k] :
     k \in 1..Len(ObjectKeys(Get(conf, K("commands"))))}

\* The declared flags of a command, and the two tokens that name a flag.
DeclaredFlags(commandConf) ==
  {ObjectKeys(FlagsOf(commandConf))[k] : k \in 1..Len(ObjectKeys(FlagsOf(commandConf)))}

LongToken(flag) == Cat(S(2, ""), flag)

AliasToken(commandConf, flag) ==
  Cat(S(1, ""), StrOf(Get(Get(FlagsOf(commandConf), flag), K("alias"))))

NamesFlag(token, commandConf, flag) ==
  token = LongToken(flag) \/ token = AliasToken(commandConf, flag)

IsFlagToken(token, commandConf) ==
  \E flag \in DeclaredFlags(commandConf) : NamesFlag(token, commandConf, flag)

FlagNamed(token, commandConf) ==
  CHOOSE flag \in DeclaredFlags(commandConf) : NamesFlag(token, commandConf, flag)

DeclaredType(commandConf, flag) == StrOf(Get(Get(FlagsOf(commandConf), flag), K("type"))).b

TakesValue(token, commandConf) ==
  /\ IsFlagToken(token, commandConf)
  /\ DeclaredType(commandConf, FlagNamed(token, commandConf)) \in {"string", "number"}

\* The tokens from the k-th on that are neither flag tokens nor the values
\* the string and number flags take, in their order.
RECURSIVE Positionals(_, _, _)
Positionals(tokens, k, commandConf) ==
  IF k > Len(tokens) THEN << >>
  ELSE IF TakesValue(tokens[k], commandConf) THEN Positionals(tokens, k + 2, commandConf)
  ELSE IF IsFlagToken(tokens[k], commandConf) THEN Positionals(tokens, k + 1, commandConf)
  ELSE <<tokens[k]>> \o Positionals(tokens, k + 1, commandConf)

\* From the k-th token on, every token that starts with '-' and is not taken
\* as a value is a declared flag, and every string or number flag has a
\* token after it.
RECURSIVE FlagsWellFormed(_, _, _)
FlagsWellFormed(tokens, k, commandConf) ==
  IF k > Len(tokens) THEN TRUE
  ELSE IF TakesValue(tokens[k], commandConf) THEN
    k < Len(tokens) /\ FlagsWellFormed(tokens, k + 2, commandConf)
  ELSE IF IsFlagToken(tokens[k], commandConf) THEN FlagsWellFormed(tokens, k + 1, commandConf)
  ELSE ~StartsWith(tokens[k], 1) /\ FlagsWellFormed(tokens, k + 1, commandConf)

\* Every token that names a string or number flag is followed by a token.
ValueFlagsFollowed(tokens, commandConf) ==
  \A k \in 2..Len(tokens) : TakesValue(tokens[k], commandConf) => k < Len(tokens)

NamesDeclaredCommand(args, conf) ==
  Len(args) >= 1 /\ args[1] \in DeclaredCommands(conf)

CommandConfOf(args, conf) == Get(Get(conf, K("commands")), args[1])

ResolvedAs(args, conf) ==
  /\ EndedInResult
  /\ exitCode = 0
  /\ stdout[1].success
  /\ stdout[1].action = "command"
  /\ stdout[1].command # NoCommand
  /\ stdout[1].command.name = args[1]
  /\ stdout[1].command.args = Positionals(args, 2, CommandConfOf(args, conf))

\* C1 as stated: whenever the argument list names a declared command and
\* every string or number flag token is followed by a token, the run ends
\* with action "command", the command's name and the positional tokens.
C1_AsStated ==
  (/\ Ended
   /\ cliConf # NoConf
   /\ NamesDeclaredCommand(ParserInput, cliConf)
   /\ ValueFlagsFollowed(ParserInput, CommandConfOf(ParserInput, cliConf)))
  => ResolvedAs(ParserInput, cliConf)

\* C1, amended: the same, for the argument lists that also hold no --help,
\* -h, --version or -v and in which every token starting with '-' that is
\* not taken as a flag's value is a declared flag name or alias.
C1_CommandResolved ==
  (/\ Ended
   /\ cliConf # NoConf
   /\ NamesDeclaredCommand(ParserInput, cliConf)
   /\ ~HasVersionToken(ParserInput)
   /\ HelpCount(ParserInput) = 0
   /\ FlagsWellFormed(ParserInput, 2, CommandConfOf(ParserInput, cliConf)))
  => ResolvedAs(ParserInput, cliConf)

C1_Witness ==
  /\ Ended
  /\ cliConf # NoConf
  /\ NamesDeclaredCommand(ParserInput, cliConf)
  /\ ~HasVersionToken(ParserInput)
  /\ HelpCount(ParserInput) = 0
  /\ FlagsWellFormed(ParserInput, 2, CommandConfOf(ParserInput, cliConf))
  /\ \E k \in 2..Len(ParserInput) : IsFlagToken(ParserInput[k], CommandConfOf(ParserInput, cliConf))
  /\ ResolvedAs(ParserInput, cliConf)
  /\ stdout[1].command.args # << >>

\* The list without its help tokens.
RECURSIVE WithoutHelp(_)
WithoutHelp(args) ==
  IF Len(args) = 0 THEN << >>
  ELSE IF IsHelpFlag(Head(args)) THEN WithoutHelp(Tail(args))
  ELSE <<Head(args)>> \o WithoutHelp(Tail(args))

\* C2: when --help or -h occurs exactly once, the list the parse goes on
\* with is the input list without that one token, every other token kept
\* in its order.
C2_OnlyHelpRemoved ==
  (pc \in {"scan", "emit", "done"} /\ isHelpe /\ HelpCount(ParserInput) = 1)
  => inputCliArgs = WithoutHelp(ParserInput)

\* C3: a run that ends in a version, help or command result exits with
\* status 0, a run that ends in an error with status 1.
C3_ExitCodes ==
  /\ EndedInResult => exitCode = 0
  /\ (Ended /\ ~uncaught /\ Len(stdout) = 1 /\ "message" \in DOMAIN stdout[1]) => exitCode = 1

VersionAloneMsg == Msg("The --version|-v flag must be set alone", << >>)

HelpAloneMsg == Msg("The --help|-h flag must be set alone", << >>)

\* --version or -v occurs at a position after the first.
VersionAfterFirst(args) == \E k \in 2..Len(args) : IsVersionFlag(args[k])

\* C4 as stated: whenever --version or -v occurs at a position other than
\* the first, the run ends in the error '--version|-v must be set alone'.
C4_AsStated ==
  (Ended /\ cliConf # NoConf /\ VersionAfterFirst(ParserInput))
  => EndedInError(VersionAloneMsg)

\* C4, amended: the same for the argument lists whose first token is not
\* itself --version or -v.
C4_VersionRejected ==
  (/\ Ended
   /\ cliConf # NoConf
   /\ VersionAfterFirst(ParserInput)
   /\ ~IsVersionFlag(ParserInput[1]))
  => EndedInError(VersionAloneMsg)

C4_Witness ==
  /\ Ended
  /\ cliConf # NoConf
  /\ NamesDeclaredCommand(ParserInput, cliConf)
  /\ VersionAfterFirst(ParserInput)
  /\ \E k \in 2..Len(ParserInput) : IsFlagToken(ParserInput[k], CommandConfOf(ParserInput, cliConf))
  /\ EndedInError(VersionAloneMsg)

\* C5 as stated: whenever --help or -h occurs twice or more, the run ends
\* in the error '--help|-h must be set alone'.
C5_AsStated ==
  (Ended /\ cliConf # NoConf /\ HelpCount(ParserInput) >= 2)
  => EndedInError(HelpAloneMsg)

\* C5, amended: the same for the argument lists that hold no --version
\* and no -v.
C5_HelpTwiceRejected ==
  (/\ Ended
   /\ cliConf # NoConf
   /\ HelpCount(ParserInput) >= 2
   /\ ~HasVersionToken(ParserInput))
  => EndedInError(HelpAloneMsg)

C5_Witness ==
  /\ Ended
  /\ cliConf # NoConf
  /\ NamesDeclaredCommand(ParserInput, cliConf)
  /\ \E j, k \in 1..Len(ParserInput) :
       j < k /\ ParserInput[j] = S(2, "help") /\ ParserInput[k] = S(1, "h")
  /\ EndedInError(HelpAloneMsg)

\* C6: when the first token is --version or -v, the run ends in the
\* version result, success true, output name@version, no command.
C6_VersionFirst ==
  (/\ Ended
   /\ cliConf # NoConf
   /\ Len(ParserInput) >= 1
   /\ IsVersionFlag(ParserInput[1]))
  => /\ EndedInResult
     /\ stdout[1] = [success |-> TRUE, action |-> "version",
                     output |-> VersionOutput(cliConf), command |-> NoCommand]

\* The value a string or number flag takes from a token.
ValueFrom(commandConf, flag, token) ==
  IF DeclaredType(commandConf, flag) = "number" THEN NumberOf(token) ELSE JStr(token)

\* C7: a turn of the scan at a boolean flag sets the flag to true and goes
\* on with the very next token; a turn at a string or number flag that has
\* a token after it takes that one token as the value and goes on with the
\* token after it.  Neither adds a positional argument.
C7_FlagConsumption ==
  [][(/\ pc = "scan"
      /\ i <= Len(cliArgs)
      /\ IsFlagToken(cliArgs[i], CommandConf)
      /\ pc' = "scan")
     => LET flag == FlagNamed(cliArgs[i], CommandConf)
        IN /\ result'.command.args = result.command.args
           /\ flag \in DOMAIN result'.command.flags
           /\ IF DeclaredType(CommandConf, flag) = "boolean"
              THEN /\ i' = i + 1
                   /\ result'.command.flags[flag] = JBool(TRUE)
              ELSE /\ i' = i + 2
                   /\ result'.command.flags[flag]
                        = ValueFrom(CommandConf, flag, cliArgs[i + 1])]_vars

\* A boolean flag was followed by a token, which became a positional argument.
C7_Witness ==
  /\ pc = "scan"
  /\ i = 3
  /\ IsFlagToken(cliArgs[1], CommandConf)
  /\ DeclaredType(CommandConf, FlagNamed(cliArgs[1], CommandConf)) = "boolean"
  /\ result.command.flags[FlagNamed(cliArgs[1], CommandConf)] = JBool(TRUE)
  /\ result.command.args = <<cliArgs[2]>>

(***************************************************************************)
(* Runs over configurations that differ in their commands.                 *)
(***************************************************************************)
MaxCommands == 3

HelpNames == {W("init"), W("build"), W("help"), W("help <term>")}

CommandNameLists ==
  {names \in UNION {[1..n -> HelpNames] : n \in 0..MaxCommands} :
     \A a, b \in 1..Len(names) : a # b => names[a] # names[b]}

ConfWithCommands(names) ==
  Conf("app", "1.0", "d",
       [k \in 1..Len(names) |->
          <<names[k],
            Command("x", << >>,
                    << <<W("force"), FlagConf("boolean", JBool(FALSE), "f", "f")>> >>)>>])

HelpArgLists ==
  {<< >>, <<S(2, "help")>>, <<W("init"), S(1, "f"), W("x")>>, <<W("help"), S(1, "h")>>,
   <<W("build"), W("x"), S(2, "force")>>}

InitHelp ==
  \E names \in CommandNameLists, args \in HelpArgLists :
    Start(<<S(1, "c"), TextOf(ConfWithCommands(names))>> \o args)

SpecHelp == InitHelp /\ [][Next]_vars

\* The global help text was printed.
GlobalHelpPrinted ==
  /\ EndedInResult
  /\ stdout[1].action = "help"
  /\ stdout[1].command = NoCommand

\* The usage lines of the printed help whose first cell is '<name> <command>'.
UsageLinesOf(command) ==
  {k \in 1..Len(stdout[1].output.usage) :
     stdout[1].output.usage[k].cell
       = CatAll(<<StrOf(Get(cliConf, K("name"))), W(" "), command>>)}

\* C8 as stated: every declared command has exactly one usage line
\* '<name> <command>' in the global help, whatever its name.
C8_AsStated ==
  GlobalHelpPrinted
  => \A command \in DeclaredCommands(cliConf) : Cardinality(UsageLinesOf(command)) = 1

BuiltInHelpEntries == {W("help"), W("help <term>")}

\* C8, amended: every declared command other than 'help' and 'help <term>',
\* the two entries the help text always has, has exactly one usage line
\* '<name> <command>'; a command with one of these two names has two.
C8_OneUsageLine ==
  GlobalHelpPrinted
  => \A command \in DeclaredCommands(cliConf) :
       Cardinality(UsageLinesOf(command))
         = IF command \in BuiltInHelpEntries THEN 2 ELSE 1

C8_Witness ==
  /\ GlobalHelpPrinted
  /\ Cardinality(DeclaredCommands(cliConf) \ BuiltInHelpEntries) >= 2
  /\ \A command \in DeclaredCommands(cliConf) \ BuiltInHelpEntries :
       Cardinality(UsageLinesOf(command)) = 1

(***************************************************************************)
(* Runs over configurations that break the schema: a configuration with    *)
(* two commands, changed at up to MaxEdits places.  A change removes a     *)
(* property or an element, or puts another value in its place.             *)
(***************************************************************************)
ConfBase ==
  Conf("app", "1.0", "d",
       << <<W("init"),
            Command("x", <<ArgSlot("dir")>>,
                    << <<W("force"), FlagConf("boolean", JBool(FALSE), "f", "f")>>,
                       <<W("name"), FlagConf("string", JStr(W("")), "n", "n")>> >>)>>,
          <<W("build"), Command("y", << >>, << >>)>> >>)

Removed == [t |-> "removed"]

RECURSIVE EditAt(_, _, _)
EditAt(v, path, new) ==
  IF Len(path) = 0 THEN new
  ELSE IF v.t = "object" THEN
    JObj(LET kept == SelectSeq(v.fields,
                               LAMBDA f : ~(f[1] = path[1] /\ Len(path) = 1 /\ new = Removed))
         IN [k \in 1..Len(kept) |->
               IF kept[k][1] = path[1]
               THEN <<kept[k][1], EditAt(kept[k][2], Tail(path), new)>>
               ELSE kept[k]])
  ELSE IF v.t = "array" THEN
    JArr(LET at == {k \in 1..Len(v.items) : W(ToString(k - 1)) = path[1]}
             keep == {k \in 1..Len(v.items) : ~(k \in at /\ Len(path) = 1 /\ new = Removed)}
             RECURSIVE Build(_)
             Build(k) ==
               IF k > Len(v.items) THEN << >>
               ELSE IF k \notin keep THEN Build(k + 1)
               ELSE IF k \in at THEN <<EditAt(v.items[k], Tail(path), new)>> \o Build(k + 1)
               ELSE <<v.items[k]>> \o Build(k + 1)
         IN Build(1))
  ELSE v

EditSites ==
  LET init == <<W("commands"), W("init")>>
      force == init \o <<W("flags"), W("force")>>
  IN {<<W("name")>>, <<W("version")>>, <<W("description")>>, <<W("commands")>>,
      init, init \o <<W("description")>>, init \o <<W("args")>>,
      init \o <<W("args"), W("0")>>, init \o <<W("args"), W("0"), W("name")>>,
      init \o <<W("flags")>>, force, force \o <<W("type")>>, force \o <<W("default")>>,
      force \o <<W("description")>>, force \o <<W("alias")>>,
      init \o <<W("flags"), W("name"), W("type")>>,
      <<W("commands"), W("build"), W("description")>>}

EditValues == {Removed, JNull, JNum(1), JArr(<< >>)}

MaxEdits == 2

RECURSIVE EditedConfs(_)
EditedConfs(n) ==
  IF n = 0 THEN {ConfBase}
  ELSE EditedConfs(n - 1)
         \cup {EditAt(conf, path, new) :
                 conf \in EditedConfs(n - 1), path \in EditSites, new \in EditValues}

ConfArgLists == {<< >>, <<W("init"), S(2, "force"), W("x")>>}

InitConf ==
  \E conf \in EditedConfs(MaxEdits), args \in ConfArgLists :
    Start(<<S(1, "c"), TextOf(conf)>> \o args)

SpecConf == InitConf /\ [][Next]_vars

\* The configuration object the run was given.
GivenConf == rawArgs[2].json

\* One check of the validator: whether it fails, and its diagnostic.
Check(fails, id, args) == [fails |-> fails, message |-> Msg(id, args)]

Missing(v, key) == IsNullish(v) \/ ~HasOwn(v, K(key))

NotOfType(v, key, type) == TypeOf(Get(v, K(key))) # type

\* The checks in the order of the claim: name, version, description, commands.
TopChecks(obj) ==
  <<Check(Missing(obj, "name"), "Config must have a name property", << >>),
    Check(NotOfType(obj, "name", "string"), "The name property must be a string", << >>),
    Check(Missing(obj, "version"), "Config must have a version property", << >>),
    Check(NotOfType(obj, "version", "string"), "The version property must be a string", << >>),
    Check(Missing(obj, "description"), "Config must have a description property", << >>),
    Check(NotOfType(obj, "description", "string"),
          "The description property must be a string", << >>),
    Check(Missing(obj, "commands"), "Config must have a commands property", << >>),
    Check(NotOfType(obj, "commands", "object"), "The commands property must be an object", << >>)>>

\* Per flag: type, default, description, alias.
FlagChecks(c, f, flagConf) ==
  <<Check(Missing(flagConf, "type"),
          "The command flag must have a type property in commands.${commandName}", <<c>>),
    Check(Get(flagConf, K("type")) \notin {JStr(W("string")), JStr(W("number")), JStr(W("boolean"))},
          "The command flag type property must be a string, number or boolean in commands.${commandName}.flags.${flagName}",
          <<c, f>>),
    Check(Missing(flagConf, "default"),
          "The command flag must have a default property in commands.${commandName}.flags.${flagName}",
          <<c, f>>),
    Check(TypeOf(Get(flagConf, K("default"))) \notin {"string", "number", "boolean"},
          "The command flag default property must be a string, number or boolean in commands.${commandName}.flags.${flagName}",
          <<c, f>>),
    Check(Missing(flagConf, "description"),
          "The command flag must have a description property in commands.${commandName}.flags.${flagName}",
          <<c, f>>),
    Check(NotOfType(flagConf, "description", "string"),
          "The command flag description property must be a string in commands.${commandName}.flags.${flagName}",
          <<c, f>>),
    Check(Missing(flagConf, "alias"),
          "The command flag must have an alias property in commands.${commandName}.flags.${flagName}",
          <<c, f>>),
    Check(NotOfType(flagConf, "alias", "string"),
          "The command flag alias property must be a string in commands.${commandName}.flags.${flagName}",
          <<c, f>>)>>

ArgChecks(c, arg) ==
  <<Check(Missing(arg, "name"),
          "The command arg must have a name property in commands.${commandName}", <<c>>),
    Check(NotOfType(arg, "name", "string"),
          "The command arg name property must be a string in commands.${commandName}", <<c>>)>>

\* The concatenation of the sequences part(1), ..., part(n).
RECURSIVE Flatten(_, _, _)
Flatten(part(_), k, n) ==
  IF k > n THEN << >> ELSE part(k) \o Flatten(part, k + 1, n)

\* Per command: description, args with their elements, flags with their flags.
CommandChecks(c, commandConf) ==
  LET args == Get(commandConf, K("args"))
      items == IF IsArray(args) THEN args.items ELSE << >>
      flags == Get(commandConf, K("flags"))
      flagNames == IF TypeOf(flags) = "object" THEN ObjectKeys(flags) ELSE << >>
      ArgPart(k) == ArgChecks(c, items[k])
      FlagPart(k) == FlagChecks(c, flagNames[k], Get(flags, flagNames[k]))
  IN <<Check(Missing(commandConf, "description"),
             "the commands.${commandName}.description property in config was required", <<c>>),
       Check(NotOfType(commandConf, "description", "string"),
             "the commands.${commandName}.description property must be a string", <<c>>),
       Check(Missing(commandConf, "args"),
             "The command must have an args property in commands.${commandName}", <<c>>),
       Check(~IsArray(args),
             "The command args property must be an array in commands.${commandName}", <<c>>)>>
     \o Flatten(ArgPart, 1, Len(items))
     \o <<Check(Missing(commandConf, "flags"),
                "The command must have an flags property in commands.${commandName}", <<c>>),
          Check(TypeOf(flags) # "object",
                "The command flags property must be an object in commands.${commandName}", <<c>>)>>
     \o Flatten(FlagPart, 1, Len(flagNames))

\* All checks of a configuration object, in the order of the claim.
AllChecks(obj) ==
  LET commands == Get(obj, K("commands"))
      names == IF TypeOf(commands) = "object" THEN ObjectKeys(commands) ELSE << >>
      CommandPart(k) == CommandChecks(names[k], Get(commands, names[k]))
  IN TopChecks(obj) \o Flatten(CommandPart, 1, Len(names))

Failing(checks) == {k \in 1..Len(checks) : checks[k].fails}

FirstFailing(checks) ==
  checks[CHOOSE k \in Failing(checks) : \A j \in Failing(checks) : k <= j]

\* C9: once the validator has run, a diagnostic it reported is that of the
\* first failing check in the order name, version, description, commands,
\* per command description, args, flags, per flag type, default,
\* description, alias; and the configuration was returned only if no check
\* fails, and then unchanged.
C9_FailFastInOrder ==
  (pc \notin {"checkConfFlag", "cliConfParser"})
  => /\ (cliConf = NoConf /\ ~uncaught)
          => /\ Failing(AllChecks(GivenConf)) # {}
             /\ EndedInError(FirstFailing(AllChecks(GivenConf)).message)
     /\ cliConf # NoConf
          => /\ Failing(AllChecks(GivenConf)) = {}
             /\ cliConf = GivenConf

\* Two checks fail and the diagnostic is that of the earlier one.
C9_Witness ==
  /\ Cardinality(Failing(AllChecks(GivenConf))) >= 2
  /\ EndedInError(FirstFailing(AllChecks(GivenConf)).message)
  /\ \E k \in Failing(AllChecks(GivenConf)) :
       AllChecks(GivenConf)[k].message # FirstFailing(AllChecks(GivenConf)).message

\* The schema of a configuration: the types of lines 15-32.
IsString(v) == v.t = "string"

IsMapping(v) == v.t = "object"

All(seq, P(_)) == \A k \in 1..Len(seq) : P(seq[k])

ArgSpecValid(arg) ==
  IsMapping(arg) /\ HasOwn(arg, K("name")) /\ IsString(Get(arg, K("name")))

FlagSpecValid(flagConf) ==
  /\ IsMapping(flagConf)
  /\ Get(flagConf, K("type")) \in {JStr(W("string")), JStr(W("number")), JStr(W("boolean"))}
  /\ Get(flagConf, K("default")).t \in {"string", "number", "boolean"}
  /\ IsString(Get(flagConf, K("description")))
  /\ IsString(Get(flagConf, K("alias")))

CommandSpecValid(commandConf) ==
  /\ IsMapping(commandConf)
  /\ IsString(Get(commandConf, K("description")))
  /\ IsArray(Get(commandConf, K("args")))
  /\ All(Get(commandConf, K("args")).items, ArgSpecValid)
  /\ IsMapping(Get(commandConf, K("flags")))
  /\ LET flags == Get(commandConf, K("flags"))
         FlagValid(f) == FlagSpecValid(Get(flags, f))
     IN All(ObjectKeys(flags), FlagValid)

SchemaValid(obj) ==
  /\ IsMapping(obj)
  /\ IsString(Get(obj, K("name")))
  /\ IsString(Get(obj, K("version")))
  /\ IsString(Get(obj, K("description")))
  /\ IsMapping(Get(obj, K("commands")))
  /\ LET commands == Get(obj, K("commands"))
         CommandValid(c) == CommandSpecValid(Get(commands, c))
     IN All(ObjectKeys(commands), CommandValid)

\* The run printed one failure payload and exited with status 1.
EndedInFailurePayload ==
  /\ ~uncaught
  /\ Len(stdout) = 1
  /\ DOMAIN stdout[1] = {"success", "message"}
  /\ ~stdout[1].success
  /\ exitCode = 1

\* C10: a configuration that violates the schema is never accepted, and the
\* run it is given to ends with a failure payload and exit status 1.
C10_ViolationsRejected ==
  ~SchemaValid(GivenConf)
  => /\ cliConf = NoConf
     /\ Ended => EndedInFailurePayload

(***************************************************************************)
(* Runs whose raw arguments hold --config and -c at any place, any number  *)
(* of times, with three configuration texts: two valid ones and one that   *)
(* lacks its name.                                                         *)
(***************************************************************************)
ConfAlt == Conf("alt", "2.0", "e", << <<W("init"), Command("y", << >>, << >>)>> >>)

ConfNoName == EditAt(ConfApp, <<W("name")>>, Removed)

MaxRaw == 4

RawTokens ==
  {S(1, "c"), S(2, "config"), TextOf(ConfApp), TextOf(ConfAlt), TextOf(ConfNoName),
   S(2, "version"), S(2, "help"), W("init")}

RawArgLists == UNION {[1..n -> RawTokens] : n \in 0..MaxRaw}

InitRaw == \E args \in RawArgLists : Start(args)

SpecRaw == InitRaw /\ [][Next]_vars

ConfMustBeSetMsg == Msg("The --config|-c flag must be set", << >>)

ConfMustHaveValueMsg == Msg("The --config|-c flag must be set with a value", << >>)

NoConfigFoundMsg ==
  Msg("No config file found, please add a config with the --config | -c flag", << >>)

InvalidConfigMsg == Msg("Invalid config", << >>)

\* The places of --config and -c in a list.
ConfigPositions(args) == {k \in 1..Len(args) : IsConfigFlag(args[k])}

LastOf(positions) == CHOOSE k \in positions : \A j \in positions : j <= k

FirstOf(positions) == CHOOSE k \in positions : \A j \in positions : k <= j

\* cliConfParser was called: the presence check let the run through.
LocatorExtracted ==
  /\ pc \notin {"checkConfFlag", "cliConfParser"}
  /\ ~EndedInError(ConfMustBeSetMsg)
  /\ ~EndedInError(ConfMustHaveValueMsg)

\* The run went on as it does when this token is the locator: the value the
\* token denotes became the configuration, or the run ended in the error of
\* that text.
RunUsedLocator(token) ==
  LET parsed == JSON5Parse(token)
      valid == ValidateConf(parsed.value)
  IN IF parsed.kind # "ok" THEN cliConf = NoConf /\ EndedInError(InvalidConfigMsg)
     ELSE IF valid.kind = "ok" THEN cliConf = parsed.value
     ELSE cliConf = NoConf /\ valid.kind = "exit" /\ EndedInError(valid.message)

\* C11 as stated: when --config or -c occurs more than once, the locator is
\* the token after the last occurrence, and when that token starts with '-'
\* the run ends in the error 'No config file found'.
C11_AsStated ==
  (LocatorExtracted /\ Cardinality(ConfigPositions(rawArgs)) >= 2)
  => LET token == rawArgs[LastOf(ConfigPositions(rawArgs)) + 1]
     IN IF StartsWith(token, 1) THEN cliConf = NoConf /\ EndedInError(NoConfigFoundMsg)
        ELSE RunUsedLocator(token)

\* The occurrences of --config and -c whose next token does not start with '-'.
UsablePositions(args) ==
  {k \in ConfigPositions(args) : k < Len(args) /\ ~StartsWith(args[k + 1], 1)}

\* C11, amended: when --config or -c occurs more than once, the locator is
\* the token after the last occurrence whose next token does not start with
\* '-'; the run ends in the error 'No config file found' only when every
\* occurrence is followed by a token that starts with '-'.
C11_LastUsableWins ==
  (LocatorExtracted /\ Cardinality(ConfigPositions(rawArgs)) >= 2)
  => IF UsablePositions(rawArgs) = {}
     THEN cliConf = NoConf /\ EndedInError(NoConfigFoundMsg)
     ELSE RunUsedLocator(rawArgs[LastOf(UsablePositions(rawArgs)) + 1])

\* Two occurrences with two different configurations after them: the run
\* went on with the second.
C11_Witness ==
  /\ LocatorExtracted
  /\ Cardinality(UsablePositions(rawArgs)) = 2
  /\ rawArgs[FirstOf(UsablePositions(rawArgs)) + 1] = TextOf(ConfApp)
  /\ rawArgs[LastOf(UsablePositions(rawArgs)) + 1] = TextOf(ConfAlt)
  /\ cliConf = ConfAlt
  /\ Ended

\* The number of tokens of a list that equal this one.
CountOf(args, token) == Cardinality({k \in 1..Len(args) : args[k] = token})

\* The token cliConfParser took as the locator.
LocatorToken == rawArgs[LastOf(UsablePositions(rawArgs)) + 1]

\* C12: the list inputParser is called with holds no --config and no -c,
\* and the token that was the locator has been taken out of it.
C12_ConfigConsumed ==
  (pc = "inputParser")
  => /\ \A k \in 1..Len(inputCliArgs) : ~IsConfigFlag(inputCliArgs[k])
     /\ CountOf(inputCliArgs, LocatorToken) < CountOf(rawArgs, LocatorToken)

(***************************************************************************)
(* The scan of a command's tokens.                                         *)
(***************************************************************************)
MissingValueMsg(flag, command) ==
  Msg("The flag --${inputFlag} must have a value in command: ${inputCommandName}",
      <<flag, command>>)

\* C13: when the scan recognizes, by name or by alias, a flag of declared
\* type string or number at the last token of the command's argument list,
\* the run ends there in the error '--<flag> must have a value in command:
\* <command>' with the declared name of the flag, and that failure payload
\* is all that is printed.
C13_MissingValue ==
  [][(/\ pc = "scan"
      /\ i = Len(cliArgs)
      /\ TakesValue(cliArgs[i], CommandConf))
     => /\ pc' = "done"
        /\ exitCode' = 1
        /\ ~uncaught'
        /\ stdout' = <<[success |-> FALSE,
                        message |-> MissingValueMsg(FlagNamed(cliArgs[i], CommandConf),
                                                    result.command.name)]>>]_vars

\* A string flag given by its alias was the last token, after a positional.
C13_Witness ==
  /\ Len(cliArgs) >= 2
  /\ cliArgs[Len(cliArgs)] = S(1, "n")
  /\ i = Len(cliArgs)
  /\ result.command.args # << >>
  /\ EndedInError(MissingValueMsg(W("name"), W("init")))

(***************************************************************************)
(* Runs of the command init of ConfApp over longer argument lists: up to   *)
(* MaxSegments segments, a segment being a positional, a boolean flag, or  *)
(* a string or number flag with the token after it.                        *)
(***************************************************************************)
MaxSegments == 3

FlagSegments ==
  {<<W("x")>>, <<S(2, "force")>>, <<S(1, "f")>>,
   <<S(2, "name"), W("x")>>, <<S(1, "n"), W("5")>>,
   <<S(2, "count"), W("5")>>, <<S(1, "k"), W("x")>>,
   <<S(2, "name"), S(1, "f")>>, <<S(1, "n"), S(2, "bogus")>>, <<S(1, "k"), S(1, "")>>}

RECURSIVE Concat(_)
Concat(parts) == IF Len(parts) = 0 THEN << >> ELSE Head(parts) \o Concat(Tail(parts))

SegmentLists == UNION {[1..n -> FlagSegments] : n \in 0..MaxSegments}

InitFlags ==
  \E segments \in SegmentLists :
    Start(<<S(1, "c"), TextOf(ConfApp), W("init")>> \o Concat(segments))

SpecFlags == InitFlags /\ [][Next]_vars

\* The flags the tokens from the k-th on give, in their order: each with its
\* declared name and the value it is given there.
RECURSIVE Occurrences(_, _, _)
Occurrences(tokens, k, commandConf) ==
  IF k > Len(tokens) THEN << >>
  ELSE IF TakesValue(tokens[k], commandConf) THEN
    IF k = Len(tokens) THEN << >>
    ELSE <<[flag |-> FlagNamed(tokens[k], commandConf),
            value |-> ValueFrom(commandConf, FlagNamed(tokens[k], commandConf), tokens[k + 1])]>>
         \o Occurrences(tokens, k + 2, commandConf)
  ELSE IF IsFlagToken(tokens[k], commandConf) THEN
    <<[flag |-> FlagNamed(tokens[k], commandConf), value |-> JBool(TRUE)]>>
    \o Occurrences(tokens, k + 1, commandConf)
  ELSE Occurrences(tokens, k + 1, commandConf)

\* The run printed a result that has a command.
CommandPrinted == EndedInResult /\ stdout[1].command # NoCommand

\* C14: the keys of the flags of a printed command are declared flag names;
\* every occurrence of a flag, by its name or by its alias, is under the
\* declared name; and the value under a name is that of the last occurrence
\* of the flag.
C14_KeyedByName ==
  CommandPrinted
  => LET occ == Occurrences(cliArgs, 1, CommandConf)
         flags == stdout[1].command.flags
     IN /\ DOMAIN flags \subseteq DeclaredFlags(CommandConf)
        /\ \A k \in 1..Len(occ) :
             /\ occ[k].flag \in DOMAIN flags
             /\ (\A j \in (k + 1)..Len(occ) : occ[j].flag # occ[k].flag)
                  => flags[occ[k].flag] = occ[k].value

\* A flag given by its name and then by its alias with another value: the
\* one key holds the later value.
C14_Witness ==
  /\ CommandPrinted
  /\ \E j, k \in 1..Len(cliArgs) :
       /\ j + 1 < k
       /\ k < Len(cliArgs)
       /\ cliArgs[j] = S(2, "name")
       /\ cliArgs[k] = S(1, "n")
       /\ cliArgs[j + 1] # cliArgs[k + 1]
       /\ stdout[1].command.flags[W("name")] = JStr(cliArgs[k + 1])
  /\ S(1, "n") \notin DOMAIN stdout[1].command.flags
  /\ W("n") \notin DOMAIN stdout[1].command.flags

\* The run ended in the version result.
EndedInVersion ==
  /\ EndedInResult
  /\ stdout[1].action = "version"
  /\ stdout[1].output = VersionOutput(cliConf)

\* C15 as stated: an argument list [cmd, ..., --version, ...] with cmd a
\* declared command ends in the version result, output name@version.
C15_AsStated ==
  (/\ Ended
   /\ cliConf # NoConf
   /\ NamesDeclaredCommand(ParserInput, cliConf)
   /\ VersionAfterFirst(ParserInput))
  => EndedInVersion

\* C15, amended: the scan of the tokens after a declared command never has
\* a --version or -v among them, and an argument list [cmd, ..., --version,
\* ...] or [cmd, ..., -v, ...] with cmd declared ends in the error
\* '--version|-v must be set alone', with no version result.
C15_VersionMidCommandRejected ==
  /\ (pc = "scan") => ~HasVersionToken(cliArgs)
  /\ (/\ Ended
      /\ cliConf # NoConf
      /\ NamesDeclaredCommand(ParserInput, cliConf)
      /\ VersionAfterFirst(ParserInput))
     => EndedInError(VersionAloneMsg) /\ result = NoResult

\* [cmd, positional, --version] ended in the error.
C15_Witness ==
  /\ Ended
  /\ cliConf # NoConf
  /\ NamesDeclaredCommand(ParserInput, cliConf)
  /\ Len(ParserInput) = 3
  /\ ~StartsWith(ParserInput[2], 1)
  /\ ParserInput[3] = S(2, "version")
  /\ EndedInError(VersionAloneMsg)

\* The list without its first --config or -c and without the token after it.
WithoutFirstConfig(args) ==
  IF ConfigPositions(args) = {} THEN args
  ELSE LET p == FirstOf(ConfigPositions(args))
       IN SubSeq(args, 1, p - 1) \o SubSeq(args, p + 2, Len(args))

\* C16: removeConfFlag returns the list without its first --config or -c
\* and without the token after it, every other token kept in its order, a
\* later --config or -c and its value included; this is the list
\* inputParser is called with.
C16_FirstConfigStripped ==
  /\ removeConfFlag(rawArgs) = WithoutFirstConfig(rawArgs)
  /\ (pc = "inputParser") => inputCliArgs = WithoutFirstConfig(rawArgs)

\* Two occurrences: the second occurrence and its value were kept.
C16_Witness ==
  /\ pc = "inputParser"
  /\ Cardinality(ConfigPositions(rawArgs)) = 2
  /\ FirstOf(ConfigPositions(rawArgs)) = 1
  /\ Len(rawArgs) = 4
  /\ inputCliArgs = <<rawArgs[3], rawArgs[4]>>
  /\ IsConfigFlag(inputCliArgs[1])

\* The diagnostics of the checks inside a flag, and inside a positional arg.
FlagDiagnosticIds == {FlagChecks(EmptyStr, EmptyStr, JNull)[k].message.id : k \in 1..8}

ArgDiagnosticIds == {ArgChecks(EmptyStr, JNull)[k].message.id : k \in 1..2}

\* C17: a diagnostic of a check inside a flag names the command and the
\* flag (commands.<command>.flags.<flag>), and a diagnostic of a check
\* inside a positional arg names the command and the arg.
C17_ExactPath ==
  (Ended /\ ~uncaught /\ Len(stdout) = 1 /\ "message" \in DOMAIN stdout[1])
  => LET m == stdout[1].message
         commands == Get(GivenConf, K("commands"))
     IN /\ m.id \in FlagDiagnosticIds
             => /\ Len(m.args) = 2
                /\ Includes(ObjectKeys(commands), m.args[1])
                /\ Includes(ObjectKeys(FlagsOf(Get(commands, m.args[1]))), m.args[2])
        /\ m.id \in ArgDiagnosticIds
             => /\ Len(m.args) = 2
                /\ Includes(ObjectKeys(commands), m.args[1])

\* The error of the presence check, of the locator or of the configuration
\* that these raw arguments have, if any: Pass when they have none.
ConfigErrorOf(args) ==
  IF ConfigPositions(args) = {} THEN Exit(ConfMustBeSetMsg)
  ELSE IF IsConfigFlag(args[Len(args)]) THEN Exit(ConfMustHaveValueMsg)
  ELSE IF UsablePositions(args) = {} THEN Exit(NoConfigFoundMsg)
  ELSE LET parsed == JSON5Parse(args[LastOf(UsablePositions(args)) + 1])
       IN IF parsed.kind # "ok" THEN Exit(InvalidConfigMsg)
          ELSE IF ValidateConf(parsed.value).kind # "ok" THEN ValidateConf(parsed.value)
          ELSE Pass

\* The order of the stages, as steps of the run.
StagesInOrder ==
  /\ (pc = "checkConfFlag") => pc' \in {"cliConfParser", "done"}
  /\ (pc = "cliConfParser") => pc' \in {"inputParser", "done"}
  /\ (pc' = "cliConfParser")
       => /\ pc = "checkConfFlag"
          /\ ConfigPositions(rawArgs) # {}
          /\ ~IsConfigFlag(rawArgs[Len(rawArgs)])
  /\ (pc' = "inputParser")
       => /\ pc = "cliConfParser"
          /\ cliConf' # NoConf
          /\ inputCliArgs' = WithoutFirstConfig(rawArgs)
  /\ (pc' \in {"scan", "emit"}) => pc \in {"inputParser", "scan"}

\* C18: the stages run in the order presence check, locator extraction and
\* validation, stripping, argument parsing; argument parsing is only ever
\* at work on a configuration that validated; and raw arguments that have
\* a presence, locator or configuration error end in that error, with no
\* outcome of the argument parsing, whatever the other tokens are.
C18_StagesInOrder ==
  /\ [][StagesInOrder]_vars
  /\ [](/\ (pc \in {"inputParser", "scan", "emit"})
             => cliConf # NoConf /\ ValidateConf(cliConf) = Ok(cliConf)
        /\ (Ended /\ ConfigErrorOf(rawArgs) # Pass)
             => /\ ConfigErrorOf(rawArgs).kind = "exit"
                /\ EndedInError(ConfigErrorOf(rawArgs).message)
                /\ result = NoResult
                /\ cliConf = NoConf)

\* A configuration without its name and --help twice: the run ended in the
\* configuration's error.
C18_Witness ==
  /\ HelpCount(rawArgs) = 2
  /\ EndedInError(Msg("Config must have a name property", << >>))

\* C19: a run that has ended has printed exactly one payload: a failure
\* payload with success false and the diagnostic and nothing else, the run
\* ending with status 1, or else the one result payload.
C19_OnePayload ==
  Ended
  => /\ Len(stdout) = 1
     /\ \/ /\ DOMAIN stdout[1] = {"success", "message"}
           /\ ~stdout[1].success
           /\ exitCode = 1
        \/ /\ "action" \in DOMAIN stdout[1]
           /\ stdout[1] = result

\* The run printed a resolved command.
CommandResolved == CommandPrinted /\ stdout[1].action = "command"

\* C20 as stated: the keys of the flags of a resolved command are exactly
\* the declared flags whose name or alias is a token of the argument list.
C20_AsStated ==
  CommandResolved
  => DOMAIN stdout[1].command.flags
       = {flag \in DeclaredFlags(CommandConf) :
            \E k \in 1..Len(cliArgs) : NamesFlag(cliArgs[k], CommandConf, flag)}

\* C20, amended: the keys of the flags of a resolved command are exactly
\* the declared flags given by a token, name or alias, that is not the
\* token a preceding string or number flag took as its value; a declared
\* flag that is not given this way is absent, its default is not applied.
C20_OnlySuppliedFlags ==
  CommandResolved
  => LET occ == Occurrences(cliArgs, 1, CommandConf)
     IN DOMAIN stdout[1].command.flags = {occ[k].flag : k \in 1..Len(occ)}

\* A resolved command with one declared flag given and another one absent.
C20_Witness ==
  /\ CommandResolved
  /\ W("count") \in DOMAIN stdout[1].command.flags
  /\ W("force") \notin DOMAIN stdout[1].command.flags
  /\ W("name") \notin DOMAIN stdout[1].command.flags

\* C21: a turn of the scan at a recognized string or number flag that has
\* a token after it takes that token as the flag's value, whatever the
\* token is, a token starting with '-' or '--' included: the run goes on
\* after it with no error and nothing printed, no other flag is set or
\* changed, and the positional args stay as they are.
C21_ValueNotClassified ==
  [][(/\ pc = "scan"
      /\ i < Len(cliArgs)
      /\ TakesValue(cliArgs[i], CommandConf))
     => LET flag == FlagNamed(cliArgs[i], CommandConf)
        IN /\ pc' = "scan"
           /\ i' = i + 2
           /\ exitCode' = -1
           /\ stdout' = << >>
           /\ result'.command.args = result.command.args
           /\ DOMAIN result'.command.flags = DOMAIN result.command.flags \cup {flag}
           /\ \A other \in DOMAIN result.command.flags \ {flag} :
                result'.command.flags[other] = result.command.flags[other]
           /\ result'.command.flags[flag]
                = ValueFrom(CommandConf, flag, cliArgs[i + 1])]_vars

\* The values were a declared flag, an undeclared flag and a bare '-': the
\* command was resolved with these as the values of name and count, force
\* not set and no positional arg.
C21_Witness ==
  /\ CommandResolved
  /\ cliArgs = <<S(2, "name"), S(1, "f"), S(1, "k"), S(1, ""), S(1, "n"), S(2, "bogus")>>
  /\ stdout[1].command.args = << >>
  /\ DOMAIN stdout[1].command.flags = {W("name"), W("count")}
  /\ stdout[1].command.flags[W("name")] = JStr(S(2, "bogus"))
  /\ stdout[1].command.flags[W("count")] = JNaN

\* C22: when cliConfParser is called the raw arguments hold a --config or
\* -c and every one of them has a token after it, so the locator scan reads
\* no token past the end and no run ends by a TypeError there; the runs
\* whose raw arguments hold none, or hold one as the last token, whichever
\* occurrence it is, have ended in the presence check's error.
C22_NoReadPastEnd ==
  /\ (pc = "cliConfParser")
       => /\ ConfigPositions(rawArgs) # {}
          /\ \A p \in ConfigPositions(rawArgs) : p + 1 <= Len(rawArgs)
          /\ ExtractLocatorFrom(rawArgs, 1, EmptyStr) # Crash
  /\ (pc # "checkConfFlag" /\ ConfigPositions(rawArgs) = {})
       => EndedInError(ConfMustBeSetMsg) /\ cliConf = NoConf
  /\ (pc # "checkConfFlag" /\ Len(rawArgs) \in ConfigPositions(rawArgs))
       => EndedInError(ConfMustHaveValueMsg) /\ cliConf = NoConf
  /\ ~uncaught

\* cliConfParser is called on a list with two occurrences, the token after
\* the second being the last of the list.
C22_Witness ==
  /\ pc = "cliConfParser"
  /\ Cardinality(ConfigPositions(rawArgs)) = 2
  /\ LastOf(ConfigPositions(rawArgs)) + 1 = Len(rawArgs)

=============================================================================
